---- MODULE Spec2Model ----
(***************************************************************************)
(* A model of the game analysis and profiling pipeline of chess-agent-cai: *)
(* analyse.py (evaluator, dip detector, opening classifier, game analyser, *)
(* batch runner) and build_profile.py (capped batch runner, profile        *)
(* builder).                                                               *)
(*                                                                         *)
(* Python values whose type varies at run time are tagged records, so that *)
(* the branch a consumer takes on the type (isinstance) is a test of the   *)
(* tag: PyInt(n), PyStr(s), PyDict(e).                                     *)
(***************************************************************************)
EXTENDS Integers, Sequences, FiniteSets, TLC

VARIABLES
    \* ---- find_significant_dips, applied to one side's sequence
    evals,          \* the EvalPoint sequence handed to the detector
    threshold,      \* its centipawn threshold
    dips,           \* the list it returned
    dpc,            \* "call" before the call, "done" after
    \* ---- a batch run: analyse.main or build_player_profile_from_file
    archive,        \* GAMES_ARCHIVE_FILE: the raw games, in order
    cap,            \* GAMES_ANALYSE_MAX
    entry,          \* which of the two batch runners runs
    pc,             \* where the run is
    pgns,           \* the list the loop walks (the archive, truncated)
    i,              \* the loop's index, counted from 0 as enumerate counts
    idx,            \* evaluate_game: half-moves pushed on the board so far
    turn,           \* evaluate_game: board.turn, the side to move
    evaluations,    \* evaluate_game: the two EvalPoint sequences
    requests,       \* every evaluation request the engine has received,
                    \* with the kind of answer it gave
    analyzed,       \* the output collection
    errlog,         \* the logging.error calls of the loop
    outcome,        \* history: how the analysis of each game walked ended
    dataset,        \* GAMES_ANALYSED_FILE
    profile,        \* PROFILE_FILE
    raised,         \* the exception that ended the run, "none" while none has
    runs,           \* history: the runner of each run so far, this one last
    last_output,    \* history: the output collection of the latest earlier
                    \* run that got to save_analysis
    \* ---- the opening classifier
    eco_files,      \* the partition files under ECO_OPENINGS_PATH
    eco_db,         \* the process-wide table
    calls,          \* history: calls of get_opening_from_eco so far
    loads,          \* history: calls of init_eco_db that ran to the end
    pgn_str,        \* the text the last call was given
    opening,        \* the string the last call returned
    caught,         \* history: what the last call's except clause caught
    \* ---- build_player_profile
    tallied,        \* games the aggregation loop has been through
    opening_stats,  \* opening -> wins, losses, games
    opening_counter,\* Counter: (opening, count) pairs in insertion order
    won_games,      \* move-texts of the games tallied as wins
    lost_games,     \* move-texts of the games tallied as losses
    openings,       \* history: the classifier's answer for each game tallied
    \* ---- select_representative_games, called on its own
    sample_games,   \* the analysed games it is given
    max_per_category,
    result_sample,  \* what it returned
    spc,            \* "call" before the call, "done" after
    \* ---- analyze_style, called on its own
    style_games,    \* the analysed games it is given
    style_seen,     \* games its loop has been through
    style_profile,  \* its dict: counts in the loop, fractions after it
    stpc            \* "loop", then "done" or the exception raised

dipVars == <<evals, threshold, dips, dpc>>

batchVars == <<archive, cap, entry, pc, pgns, i, idx, turn, evaluations,
               requests, analyzed, errlog, outcome, dataset, profile, raised,
               runs, last_output>>

ecoVars == <<eco_files, eco_db, calls, loads, pgn_str, opening, caught>>

profVars == <<tallied, opening_stats, opening_counter, won_games, lost_games,
              openings>>

sampleVars == <<sample_games, max_per_category, result_sample, spc>>

styleVars == <<style_games, style_seen, style_profile, stpc>>

\* what each part of the program leaves alone
notBatch == <<dipVars, ecoVars, profVars, sampleVars, styleVars>>

notDips == <<batchVars, ecoVars, profVars, sampleVars, styleVars>>

notEco == <<dipVars, batchVars, profVars, sampleVars, styleVars>>

notProfile == <<dipVars, sampleVars, styleVars, archive, cap, entry, pgns, i,
                idx, turn, evaluations, requests, analyzed, errlog, outcome,
                dataset, runs, last_output>>

notSamples == <<dipVars, batchVars, ecoVars, profVars, styleVars>>

notStyle == <<dipVars, batchVars, ecoVars, profVars, sampleVars>>

vars == <<dipVars, batchVars, ecoVars, profVars, sampleVars, styleVars>>

-----------------------------------------------------------------------------
(* Bounds of the model.                                                    *)

MaxEvals == 3       \* longest EvalPoint sequence handed to the detector

MaxGames == 3       \* most games in the archive

MaxMoves == 2       \* most half-moves in a game of the archive

MaxCalls == 2       \* most calls of the classifier in one process

MaxProfileGames == 2    \* most analysed games handed to build_player_profile

MaxSampleGames == 3     \* most games handed to select_representative_games

MaxStyleGames == 4      \* most games handed to analyze_style

MaxRuns == 2            \* most runs of the program, one after the other

MaxRunGames == 2        \* most games in the archive of each of those runs

-----------------------------------------------------------------------------
(* Python values.                                                          *)

PyInt(n) == [t |-> "int", v |-> n]
PyStr(s) == [t |-> "str", s |-> s]
PyDict(e) == [t |-> "dict", type |-> e.type, value |-> e.value]

IsInt(x) == x.t = "int"

Abs(n) == IF n < 0 THEN -n ELSE n

Min(a, b) == IF a <= b THEN a ELSE b

Max(a, b) == IF a >= b THEN a ELSE b

Other(side) == IF side = "white" THEN "black" ELSE "white"

-----------------------------------------------------------------------------
(* config.py                                                               *)

EVAL_DROP_THRESHOLD == 150

-----------------------------------------------------------------------------
(* The engine boundary: a tagged score, centipawn or mate distance.        *)

CpValues == {-100, 100, 200, 250, 300}

MateValues == {2}

Evaluations ==
    [type : {"cp"}, value : CpValues] \cup [type : {"mate"}, value : MateValues]

-----------------------------------------------------------------------------
(* analyse.py: find_significant_dips                                       *)

MATE_INVOLVED == PyStr("mate involved")

BothCp(prev, curr) == prev.type = "cp" /\ curr.type = "cp"

SignificantStrict(delta, thr) == Abs(delta) > thr

Significant(delta, thr) == Abs(delta) >= thr

MateInvolvedBoth(prev, curr) == prev.type = "mate" /\ curr.type = "mate"

MateInvolved(prev, curr) == prev.type = "mate" \/ curr.type = "mate"

\* the move a Dip is stamped with, taken from the pair's earlier point
DipMoveNumberOfPrev(es, n) == es[n - 1].move_number

\* lines 99 and 106: evals[i]["move_number"]
DipMoveNumber(es, n) == es[n].move_number

\* The body of the loop for the pair (i - 1, i), i counted from 1 as TLA+
\* counts: the dips it appends (none or one).
DipsOfPair(es, thr, n) ==
    LET prev == es[n - 1].evaluation
        curr == es[n].evaluation
    IN  IF BothCp(prev, curr)
        THEN LET delta == curr.value - prev.value
             IN  IF Significant(delta, thr)
                 THEN << [move_number |-> DipMoveNumber(es, n),
                          score_before |-> PyInt(prev.value),
                          score_after |-> PyInt(curr.value),
                          delta |-> PyInt(delta)] >>
                 ELSE << >>
        ELSE IF MateInvolved(prev, curr)
        THEN << [move_number |-> DipMoveNumber(es, n),
                 score_before |-> PyDict(prev),
                 score_after |-> PyDict(curr),
                 delta |-> MATE_INVOLVED] >>
        ELSE << >>

RECURSIVE DipsFrom(_, _, _)
DipsFrom(es, thr, n) ==
    IF n > Len(es) THEN << >>
    ELSE DipsOfPair(es, thr, n) \o DipsFrom(es, thr, n + 1)

find_significant_dips(es, thr) == DipsFrom(es, thr, 2)

-----------------------------------------------------------------------------
(* The detector on its own: every sequence one side of a game can have,    *)
(* as the evaluator builds it (the k-th entry of white is half-move 2k-1,  *)
(* of black 2k, for a game white starts).                                  *)

MoveNumberOf(side, k) == IF side = "white" THEN 2 * k - 1 ELSE 2 * k

SideSequences(side) ==
    UNION { { [k \in 1..n |-> [move_number |-> MoveNumberOf(side, k),
                               evaluation |-> f[k]]]
              : f \in [1..n -> Evaluations] }
            : n \in 0..MaxEvals }

Thresholds == {EVAL_DROP_THRESHOLD, 100}

DipInit ==
    /\ evals \in SideSequences("white") \cup SideSequences("black")
    /\ threshold \in Thresholds
    /\ dips = << >>
    /\ dpc = "call"

DipParked ==
    /\ evals = << >>
    /\ threshold = EVAL_DROP_THRESHOLD
    /\ dips = << >>
    /\ dpc = "parked"

FindSignificantDips ==
    /\ dpc = "call"
    /\ dips' = find_significant_dips(evals, threshold)
    /\ dpc' = "done"
    /\ UNCHANGED <<evals, threshold>>
    /\ UNCHANGED notDips

-----------------------------------------------------------------------------
(* Raw games.  A PGN text is what chess.pgn.read_game makes of it: whether  *)
(* it yields a game at all, the side to move in the starting position, the *)
(* mainline and the header fields.  A position's fingerprint (board.fen(), *)
(* all six fields) is the starting side with the moves that led to it.     *)

NoHeader == [has |-> FALSE, s |-> ""]

Header(s) == [has |-> TRUE, s |-> s]

\* headers.get(name, default)
HeaderGet(h, default) == IF h.has THEN h.s ELSE default

Headers(result, white, black, white_elo) ==
    [Result |-> Header(result), White |-> Header(white),
     Black |-> Header(black), WhiteElo |-> white_elo,
     BlackElo |-> Header("1480"),
     TimeControl |-> Header(<<"6", "0", "0">>),
     Termination |-> Header("Normal")]

Line(n) == [k \in 1..n |-> IF k % 2 = 1 THEN "e4" ELSE "e5"]

PgnText(pad, first, moves, headers) ==
    [pad |-> pad, parses |-> TRUE, first |-> first, moves |-> moves,
     headers |-> headers]

\* a text read_game returns None for
Unparseable ==
    [pad |-> FALSE, parses |-> FALSE, first |-> "white", moves |-> << >>,
     headers |-> Headers("*", "", "", NoHeader)]

\* pgn.strip()
Strip(text) == [text EXCEPT !.pad = FALSE]

\* An entry of the archive: a move-text string, an object with a "pgn" field,
\* or anything else.
RawGame(fmt, text) == [fmt |-> fmt, text |-> text]

BatchGames ==
    { RawGame("other", Unparseable),
      RawGame("str", Unparseable),
      RawGame("str", PgnText(FALSE, "white", Line(MaxMoves),
                  Headers("1-0", "Hero", "Villain", Header("1500")))),
      RawGame("dict", PgnText(TRUE, "black", Line(1),
                  Headers("0-1", "Villain", "hero", NoHeader))),
      RawGame("str", PgnText(FALSE, "white", << >>,
                  Headers("1/2-1/2", "HERO", "Villain", Header("?")))) }

SeqsUpTo(S, n) == UNION { [1..k -> S] : k \in 0..n }

-----------------------------------------------------------------------------
(* config.py: GAMES_ANALYSE_MAX, a number or the word "all".               *)

GAMES_ANALYSE_MAX == 30

CapAll == [kind |-> "all", n |-> 0]

CapInt(n) == [kind |-> "int", n |-> n]

\* a value int() raises ValueError for
CapBad == [kind |-> "bad", n |-> 0]

Caps == {CapAll, CapInt(2), CapInt(-1), CapBad}

\* s[:c] as Python slices
SlicePrefix(s, c) ==
    IF c >= 0 THEN SubSeq(s, 1, Min(c, Len(s)))
    ELSE SubSeq(s, 1, Max(Len(s) + c, 0))

-----------------------------------------------------------------------------
(* The engine boundary of a batch run: an evaluation, or no result.        *)

NoAnswer == [type |-> "none", value |-> 0]

EngineAnswers ==
    { [type |-> "cp", value |-> 100], [type |-> "cp", value |-> 300], NoAnswer }

-----------------------------------------------------------------------------
(* Files.                                                                  *)

NoFile == [exists |-> FALSE, data |-> << >>]

File(data) == [exists |-> TRUE, data |-> data]

-----------------------------------------------------------------------------
(* analyse.py: evaluate_game, analyze_pgn                                  *)

NoEvals == [white |-> << >>, black |-> << >>]

\* line 72, board.turn being the side to move after the push
SideJustMovedSwapped(turnAfter) == turnAfter

SideJustMoved(turnAfter) == IF turnAfter = "white" THEN "black" ELSE "white"

\* line 76: "if not evaluation"
NoEvaluationNever(answer) == FALSE

NoEvaluation(answer) == answer.type = "none"

Numeric == {"1500", "1480"}

\* int(s) of a header's text
IntOf(s) == CASE s = "1500" -> 1500 [] s = "1480" -> 1480

\* int(headers.get(name, 0)) raises ValueError
EloRaises(h) == h.has /\ h.s \notin Numeric

EloOf(h) == IF h.has THEN IntOf(h.s) ELSE 0

\* lines 121-122: the headers of the game read_game builds.  A game starts
\* with the tags of the roster filled in ("?" for the names, "*" for the
\* result) and takes the tags of the text over them.
ReadHeaders(tags) ==
    [tags EXCEPT !.White = IF @.has THEN @ ELSE Header("?"),
                 !.Black = IF @.has THEN @ ELSE Header("?"),
                 !.Result = IF @.has THEN @ ELSE Header("*")]

AnalyzedGame(text, evs) ==
    LET headers == ReadHeaders(text.headers)
    IN  [pgn |-> Strip(text),
         result |-> HeaderGet(headers.Result, "*"),
         time_control |-> HeaderGet(headers.TimeControl, << >>),
         white |-> HeaderGet(headers.White, ""),
         white_elo |-> EloOf(headers.WhiteElo),
         black |-> HeaderGet(headers.Black, ""),
         black_elo |-> EloOf(headers.BlackElo),
         termination |-> HeaderGet(headers.Termination, ""),
         white_dips |-> find_significant_dips(evs.white, EVAL_DROP_THRESHOLD),
         black_dips |-> find_significant_dips(evs.black, EVAL_DROP_THRESHOLD)]

-----------------------------------------------------------------------------
(* analyse.py: init_eco_db, get_opening_from_eco                           *)

NumEcoFiles == 6

\* board.fen() after k moves of the game
Fen(text, k) == <<text.first>> \o SubSeq(text.moves, 1, k)

EcoRec(eco, name) == [eco |-> eco, name |-> name]

\* The entries the partition files can hold, and the file each lives in.
EcoPool ==
    { [key |-> <<"white", "e4">>, file |-> 2,
       rec |-> EcoRec("B00", "King's Pawn")],
      [key |-> <<"white", "e4", "e5">>, file |-> 3,
       rec |-> EcoRec("C20", "King's Pawn Game")],
      [key |-> <<"white", "e5">>, file |-> 1,
       rec |-> EcoRec("A00", "Irregular")] }

EcoEntries(pool, f) ==
    LET here == { e \in pool : e.file = f }
    IN  [k \in { e.key : e \in here } |->
            (CHOOSE e \in here : e.key = k).rec]

EcoFiles(pool, unreadable) ==
    [f \in 1..NumEcoFiles |->
        [readable |-> f \notin unreadable, entries |-> EcoEntries(pool, f)]]

EmptyDb == << >>

\* eco_db.update(json.load(f))
Update(db, entries) ==
    [k \in (DOMAIN db) \cup (DOMAIN entries) |->
        IF k \in DOMAIN entries THEN entries[k] ELSE db[k]]

\* init_eco_db: the files in order, each merged as soon as it is read; a file
\* that cannot be opened raises and leaves what was merged before it.
RECURSIVE LoadFrom(_, _, _)
LoadFrom(db, files, f) ==
    IF f > Len(files) THEN [db |-> db, raised |-> FALSE]
    ELSE IF ~files[f].readable THEN [db |-> db, raised |-> TRUE]
    ELSE LoadFrom(Update(db, files[f].entries), files, f + 1)

init_eco_db(db, files) == LoadFrom(db, files, 1)

\* f"{rec['eco']} - {rec['name']}"
FormatOpening(rec) == <<rec.eco, " - ", rec.name>>

None == << >>

Unknown == <<"Unknown">>

ErrorString(e) == <<"Error: ", e>>

\* line 55: what the loop's variable holds after a hit
KeepFirstMatch(old, new) == IF old = None THEN new ELSE old

RecordMatch(old, new) == new

\* lines 50-55
RECURSIVE ReplayFrom(_, _, _, _)
ReplayFrom(db, text, k, found) ==
    IF k > Len(text.moves) THEN found
    ELSE ReplayFrom(db, text, k + 1,
            IF Fen(text, k) \in DOMAIN db
            THEN RecordMatch(found, FormatOpening(db[Fen(text, k)]))
            ELSE found)

\* the except clause of line 58 catches a failed load
LoadFailureCaught(loaded) == loaded.raised

\* get_opening_from_eco: the table after the call, the string returned and
\* what the except clause caught.
get_opening_from_eco(db, files, text) ==
    LET empty == Cardinality(DOMAIN db) = 0
        loaded == IF empty
                  THEN init_eco_db(db, files)
                  ELSE [db |-> db, raised |-> FALSE]
    IN  IF LoadFailureCaught(loaded)
        THEN [db |-> loaded.db, opening |-> ErrorString("No such file"),
              caught |-> "load", loaded |-> FALSE]
        ELSE IF ~text.parses
        THEN [db |-> loaded.db, opening |-> ErrorString("NoneType"),
              caught |-> "parse", loaded |-> empty]
        ELSE LET found == ReplayFrom(loaded.db, text, 1, None)
             IN  [db |-> loaded.db,
                  opening |-> IF found = None THEN Unknown ELSE found,
                  caught |-> "none", loaded |-> empty]

\* The classifier on its own: a process that classifies some games.
EcoTexts ==
    { PgnText(FALSE, "white", m, Headers("1-0", "Hero", "Villain", NoHeader))
        : m \in SeqsUpTo({"e4", "e5"}, MaxMoves) }

EcoInit ==
    /\ \E pool \in SUBSET EcoPool :
       \E unreadable \in { u \in SUBSET (1..NumEcoFiles) : Cardinality(u) <= 1 } :
          eco_files = EcoFiles(pool, unreadable)
    /\ eco_db = EmptyDb
    /\ calls = 0
    /\ loads = 0
    /\ pgn_str = Unparseable
    /\ opening = None
    /\ caught = "none"

EcoParked ==
    /\ eco_files = EcoFiles(EcoPool, {})
    /\ eco_db = EmptyDb
    /\ calls = 0
    /\ loads = 0
    /\ pgn_str = Unparseable
    /\ opening = None
    /\ caught = "none"

Classify(text) ==
    LET r == get_opening_from_eco(eco_db, eco_files, text)
    IN  /\ eco_db' = r.db
        /\ opening' = r.opening
        /\ caught' = r.caught
        /\ pgn_str' = text
        /\ calls' = calls + 1
        /\ loads' = IF r.loaded THEN loads + 1 ELSE loads
        /\ UNCHANGED eco_files

GetOpeningFromEco ==
    /\ calls < MaxCalls
    /\ \E text \in EcoTexts : Classify(text)
    /\ UNCHANGED notEco

-----------------------------------------------------------------------------
(* The batch runners: analyse.main and build_player_profile_from_file.     *)

BatchInit ==
    /\ archive \in SeqsUpTo(BatchGames, MaxGames)
    /\ \/ entry = "analyse.main" /\ cap = CapInt(GAMES_ANALYSE_MAX)
       \/ entry = "build_profile" /\ cap \in Caps
    /\ pc = "start"
    /\ pgns = << >>
    /\ i = 0
    /\ idx = 0
    /\ turn = "white"
    /\ evaluations = NoEvals
    /\ requests = << >>
    /\ analyzed = << >>
    /\ errlog = << >>
    /\ outcome = << >>
    /\ dataset = NoFile
    /\ profile = NoFile
    /\ raised = "none"
    /\ runs = <<entry>>
    /\ last_output = NoFile

BatchParked ==
    /\ archive = << >>
    /\ cap = CapAll
    /\ entry = "parked"
    /\ pc = "parked"
    /\ pgns = << >>
    /\ i = 0
    /\ idx = 0
    /\ turn = "white"
    /\ evaluations = NoEvals
    /\ requests = << >>
    /\ analyzed = << >>
    /\ errlog = << >>
    /\ outcome = << >>
    /\ dataset = NoFile
    /\ profile = NoFile
    /\ raised = "none"
    /\ runs = <<entry>>
    /\ last_output = NoFile

\* build_profile.py lines 194-204; analyse.py lines 150-153
LoadArchive ==
    /\ pc = "start"
    /\ \/ /\ entry = "analyse.main" \/ cap.kind = "all"
          /\ pgns' = archive
          /\ pc' = "loop"
          /\ raised' = raised
       \/ /\ entry = "build_profile" /\ cap.kind = "int"
          /\ pgns' = SlicePrefix(archive, cap.n)
          /\ pc' = "loop"
          /\ raised' = raised
       \/ /\ entry = "build_profile" /\ cap.kind = "bad"
          /\ pgns' = archive
          /\ pc' = "config_error"
          /\ raised' = "ValueError"
    /\ UNCHANGED <<archive, cap, entry, i, idx, turn, evaluations, requests,
                   analyzed, errlog, outcome, dataset, profile>>
    /\ UNCHANGED <<runs, last_output>>
    /\ UNCHANGED notBatch

Cur == pgns[i + 1]

\* build_profile.py lines 210-215 pick the text out of the entry;
\* analyse.main hands the entry to io.StringIO, which takes only a string.
CanRead(game) ==
    IF entry = "build_profile" THEN game.fmt \in {"dict", "str"}
    ELSE game.fmt = "str"

\* the index the except clause logs
LogIndexZeroBased(n) == n

LogIndex(n) == n + 1

\* "except Exception as e: logging.error(...)": the game is dropped and the
\* loop goes on with the next one.
Fail(kind, move) ==
    /\ errlog' = Append(errlog,
                    [index |-> LogIndex(i), kind |-> kind, move |-> move])
    /\ outcome' = Append(outcome, kind)
    /\ i' = i + 1
    /\ idx' = 0
    /\ evaluations' = NoEvals
    /\ pc' = "loop"

GameBadFormat ==
    /\ pc = "loop"
    /\ i < Len(pgns)
    /\ ~CanRead(Cur)
    /\ Fail("format", 0)
    /\ UNCHANGED <<archive, cap, entry, pgns, turn, requests, analyzed,
                   dataset, profile>>
    /\ UNCHANGED <<raised, runs, last_output>>
    /\ UNCHANGED notBatch

\* evaluate_game lines 63-65
GameParseFails ==
    /\ pc = "loop"
    /\ i < Len(pgns)
    /\ CanRead(Cur)
    /\ ~Cur.text.parses
    /\ Fail("parse", 0)
    /\ UNCHANGED <<archive, cap, entry, pgns, turn, requests, analyzed,
                   dataset, profile>>
    /\ UNCHANGED <<raised, runs, last_output>>
    /\ UNCHANGED notBatch

\* evaluate_game lines 63-68
GameStart ==
    /\ pc = "loop"
    /\ i < Len(pgns)
    /\ CanRead(Cur)
    /\ Cur.text.parses
    /\ pc' = "eval"
    /\ idx' = 0
    /\ turn' = Cur.text.first
    /\ evaluations' = NoEvals
    /\ UNCHANGED <<archive, cap, entry, pgns, i, requests, analyzed, errlog,
                   outcome, dataset, profile>>
    /\ UNCHANGED <<raised, runs, last_output>>
    /\ UNCHANGED notBatch

\* evaluate_game lines 70-82: one turn of the loop
EvalMove ==
    /\ pc = "eval"
    /\ idx < Len(Cur.text.moves)
    /\ \E answer \in EngineAnswers :
          LET turnAfter == Other(turn)
              side == SideJustMoved(turnAfter)
          IN  /\ requests' = Append(requests,
                      [game |-> i + 1, ply |-> idx + 1, answer |-> answer.type])
              /\ turn' = turnAfter
              /\ IF NoEvaluation(answer)
                 THEN /\ Fail("engine", idx + 1)
                      /\ UNCHANGED analyzed
                 ELSE /\ evaluations' =
                            [evaluations EXCEPT ![side] =
                                Append(@, [move_number |-> idx + 1,
                                           evaluation |-> answer])]
                      /\ idx' = idx + 1
                      /\ UNCHANGED <<i, pc, errlog, outcome, analyzed>>
    /\ UNCHANGED <<archive, cap, entry, pgns, dataset, profile>>
    /\ UNCHANGED <<raised, runs, last_output>>
    /\ UNCHANGED notBatch

\* evaluate_game line 84 and analyze_pgn lines 118-135
EvalReturn ==
    /\ pc = "eval"
    /\ idx = Len(Cur.text.moves)
    /\ IF EloRaises(Cur.text.headers.WhiteElo)
          \/ EloRaises(Cur.text.headers.BlackElo)
       THEN /\ Fail("elo", 0)
            /\ UNCHANGED analyzed
       ELSE /\ analyzed' = Append(analyzed, AnalyzedGame(Cur.text, evaluations))
            /\ outcome' = Append(outcome, "analyzed")
            /\ i' = i + 1
            /\ idx' = 0
            /\ evaluations' = NoEvals
            /\ pc' = "loop"
            /\ UNCHANGED errlog
    /\ UNCHANGED <<archive, cap, entry, pgns, turn, requests, dataset, profile>>
    /\ UNCHANGED <<raised, runs, last_output>>
    /\ UNCHANGED notBatch

\* open(path, "a"): the data goes after what the file holds
save_analysis_appending(old, data) == File(old.data \o data)

\* analyse.py lines 143-145, open(path, "w") and json.dump(data, f): the
\* file holds the data and nothing of what it held before
save_analysis(old, data) == File(data)

\* save_analysis(analyzed, GAMES_ANALYSED_FILE)
SaveAnalysis ==
    /\ pc = "loop"
    /\ i = Len(pgns)
    /\ dataset' = save_analysis(dataset, analyzed)
    /\ pc' = IF entry = "analyse.main" THEN "done" ELSE "profile"
    /\ UNCHANGED <<archive, cap, entry, pgns, i, idx, turn, evaluations,
                   requests, analyzed, errlog, outcome, profile>>
    /\ UNCHANGED <<raised, runs, last_output>>
    /\ UNCHANGED notBatch

-----------------------------------------------------------------------------
(* build_profile.py: the player's perspective                              *)

CHESSCOM_USERNAME == "Hero"

PROFILE_INFO == "club player"

\* str.lower() on the names of the model
Lower(s) ==
    CASE s = "Hero" -> "hero"
      [] s = "HERO" -> "hero"
      [] s = "Villain" -> "villain"
      [] s = "Normal" -> "normal"
      [] s = "Timeout" -> "timeout"
      [] OTHER -> s

\* a comparison that forgets lower()
IsWhiteCaseSensitive(game) == game.white = CHESSCOM_USERNAME

\* game["white"].lower() == CHESSCOM_USERNAME.lower()
IsWhite(game) == Lower(game.white) = Lower(CHESSCOM_USERNAME)

MyDips(game) == IF IsWhite(game) THEN game.white_dips ELSE game.black_dips

-----------------------------------------------------------------------------
(* build_profile.py: select_representative_games                           *)

\* sorted(pairs, key=lambda x: x[1]): stable, ascending in the second member
RECURSIVE InsertByScore(_, _)
InsertByScore(sorted, x) ==
    IF sorted = << >> THEN <<x>>
    ELSE IF x[2] < Head(sorted)[2] THEN <<x>> \o sorted
    ELSE <<Head(sorted)>> \o InsertByScore(Tail(sorted), x)

RECURSIVE SortAscending(_)
SortAscending(pairs) ==
    IF pairs = << >> THEN << >>
    ELSE InsertByScore(SortAscending(SubSeq(pairs, 1, Len(pairs) - 1)),
                       pairs[Len(pairs)])

Unsorted(pairs) == pairs

SortedByScore(pairs) == SortAscending(pairs)

game_score(game) == Len(MyDips(game))

\* lines 46-52: the bucket a game is appended to, "none" when to none
Category(game) ==
    IF game.result = "1/2-1/2" THEN "draw"
    ELSE IF game.result = "1-0" THEN (IF IsWhite(game) THEN "win" ELSE "loss")
    ELSE IF game.result = "0-1" THEN (IF IsWhite(game) THEN "loss" ELSE "win")
    ELSE "none"

\* categorized[category]: (game, score) pairs in input order
RECURSIVE Categorized(_, _)
Categorized(games, category) ==
    IF games = << >> THEN << >>
    ELSE LET rest == Categorized(SubSeq(games, 1, Len(games) - 1), category)
             game == games[Len(games)]
         IN  IF Category(game) = category
             THEN Append(rest, <<game, game_score(game)>>)
             ELSE rest

SampleOf(games, category, n) ==
    LET top == SlicePrefix(SortedByScore(Categorized(games, category)), n)
    IN  [k \in 1..Len(top) |-> top[k][1].pgn]

select_representative_games(games, n) ==
    [win |-> SampleOf(games, "win", n),
     loss |-> SampleOf(games, "loss", n),
     draw |-> SampleOf(games, "draw", n)]

-----------------------------------------------------------------------------
(* build_profile.py: parse_time_control, is_time_trouble, analyze_style    *)

\* A time control is a text: a sequence of characters.
Digits == {"0", "1", "2", "3", "4", "5", "6", "7", "8", "9"}

DigitValue(c) ==
    CASE c = "0" -> 0 [] c = "1" -> 1 [] c = "2" -> 2 [] c = "3" -> 3
      [] c = "4" -> 4 [] c = "5" -> 5 [] c = "6" -> 6 [] c = "7" -> 7
      [] c = "8" -> 8 [] c = "9" -> 9

\* "+" in tc
HasPlus(tc) == \E k \in 1..Len(tc) : tc[k] = "+"

\* tc.split("+"): the pieces between the "+" signs, empty pieces included
RECURSIVE SplitPlus(_, _)
SplitPlus(tc, piece) ==
    IF tc = << >> THEN <<piece>>
    ELSE IF Head(tc) = "+" THEN <<piece>> \o SplitPlus(Tail(tc), << >>)
    ELSE SplitPlus(Tail(tc), Append(piece, Head(tc)))

\* int(s) raises ValueError unless s is a run of digits, signed or not
IntRaises(s) ==
    LET body == IF s # << >> /\ Head(s) = "-" THEN Tail(s) ELSE s
    IN  body = << >> \/ \E k \in 1..Len(body) : body[k] \notin Digits

RECURSIVE DigitsValue(_)
DigitsValue(ds) ==
    IF ds = << >> THEN 0
    ELSE 10 * DigitsValue(SubSeq(ds, 1, Len(ds) - 1)) + DigitValue(ds[Len(ds)])

\* int(s) of a text int() accepts
IntOfText(s) ==
    IF Head(s) = "-" THEN 0 - DigitsValue(Tail(s)) ELSE DigitsValue(s)

\* lines 116-117
FallbackTimeControl == [base |-> 600, inc |-> 0]

\* parse_time_control: "base+increment" or a bare base; anything int() or
\* the two-name unpacking raises on gives the fallback
ParseTimeControl(tc) ==
    IF HasPlus(tc)
    THEN LET pieces == SplitPlus(tc, << >>)
         IN  IF Len(pieces) # 2 \/ IntRaises(pieces[1]) \/ IntRaises(pieces[2])
             THEN FallbackTimeControl
             ELSE [base |-> IntOfText(pieces[1]), inc |-> IntOfText(pieces[2])]
    ELSE IF IntRaises(tc) THEN FallbackTimeControl
    ELSE [base |-> IntOfText(tc), inc |-> 0]

\* line 161 with the threshold's own comparison
BigBlundersFromThreshold(ds) ==
    { k \in 1..Len(ds) : IsInt(ds[k].delta) /\ Abs(ds[k].delta.v) >= 150 }

BigBlunders(ds) ==
    { k \in 1..Len(ds) : IsInt(ds[k].delta) /\ Abs(ds[k].delta.v) > 150 }

\* line 125
BaseIsLongStrict(base) == base > 900

BaseIsLong(base) == base >= 900

\* line 134: the move a blunder counts as late from
IsLate(move_number) == move_number >= 60

is_time_trouble(game) ==
    LET base == ParseTimeControl(game.time_control).base
        my == MyDips(game)
        late == { k \in BigBlunders(my) : IsLate(my[k].move_number) }
    IN  IF BaseIsLong(base) THEN FALSE ELSE Cardinality(late) >= 2

\* "timeout" in termination or "abandoned" in termination, on the
\* terminations of the model
MentionsTimeoutOrAbandoned(termination) ==
    termination \in {"timeout", "won - game abandoned"}

StyleOfGame(game) ==
    LET my == MyDips(game)
        big == BigBlunders(my)
    IN  [aggressive |-> \E k \in big : my[k].move_number <= 10,
         positional |-> Len(my) <= 2,
         tactical |-> Cardinality(big) >= 3,
         defensive |-> MentionsTimeoutOrAbandoned(Lower(game.termination)),
         time_trouble_prone |-> is_time_trouble(game)]

StyleLabels ==
    {"aggressive", "positional", "tactical", "defensive", "time_trouble_prone"}

\* round(count / total, 2), in hundredths.  A tie goes to the even hundredth
\* where count / total is a binary fraction (8 games, 16, ...); from 40 games
\* on the double nearest a tie may lie off it, and this does not follow it.
Round2(count, total) ==
    LET q == (100 * count) \div total
        r == (100 * count) % total
    IN  IF 2 * r > total THEN q + 1
        ELSE IF 2 * r < total THEN q
        ELSE IF q % 2 = 0 THEN q ELSE q + 1

\* analyze_style on a non-empty collection; on an empty one line 186 divides
\* by zero
analyze_style(games) ==
    [label \in StyleLabels |->
        Round2(Cardinality({ k \in 1..Len(games) : StyleOfGame(games[k])[label] }),
               Len(games))]

-----------------------------------------------------------------------------
(* build_profile.py: build_player_profile                                  *)

NoStats == [wins |-> 0, losses |-> 0, games |-> 0]

\* opening_stats[opening], a defaultdict
StatsOf(stats, o) == IF o \in DOMAIN stats THEN stats[o] ELSE NoStats

Win(game) ==
    \/ game.result = "1-0" /\ IsWhite(game)
    \/ game.result = "0-1" /\ ~IsWhite(game)

Loss(game) ==
    \/ game.result = "0-1" /\ IsWhite(game)
    \/ game.result = "1-0" /\ ~IsWhite(game)

\* lines 81-87
Tally(stats, o, game) ==
    LET old == StatsOf(stats, o)
        new == [games |-> old.games + 1,
                wins |-> IF Win(game) THEN old.wins + 1 ELSE old.wins,
                losses |-> IF ~Win(game) /\ Loss(game)
                           THEN old.losses + 1 ELSE old.losses]
    IN  [k \in (DOMAIN stats) \cup {o} |-> IF k = o THEN new ELSE stats[k]]

\* opening_counter[opening] += 1
Count(counter, o) ==
    IF \E k \in 1..Len(counter) : counter[k][1] = o
    THEN [k \in 1..Len(counter) |->
            IF counter[k][1] = o THEN <<o, counter[k][2] + 1>> ELSE counter[k]]
    ELSE Append(counter, <<o, 1>>)

\* Counter.most_common(n): by count, largest first, ties in insertion order
most_common(counter, n) ==
    LET negated == [k \in 1..Len(counter) |-> <<counter[k][1], -counter[k][2]>>]
        sorted == SortAscending(negated)
        top == SlicePrefix(sorted, n)
    IN  [k \in 1..Len(top) |-> <<top[k][1], -top[k][2]>>]

ProfileOf(games, counter) ==
    [most_played_openings |-> most_common(counter, 5),
     samples |-> select_representative_games(games, 5),
     total_games |-> Len(games),
     style |-> analyze_style(games),
     chess_com_stats |-> "stats",
     profile_in_own_words |-> PROFILE_INFO]

ProfInit ==
    /\ tallied = 0
    /\ opening_stats = << >>
    /\ opening_counter = << >>
    /\ won_games = << >>
    /\ lost_games = << >>
    /\ openings = << >>

\* lines 69-89: one turn of the aggregation loop
TallyGame ==
    /\ pc = "profile"
    /\ tallied < Len(analyzed)
    /\ LET game == analyzed[tallied + 1]
       IN  /\ Classify(game.pgn)
           /\ opening_stats' = Tally(opening_stats, opening', game)
           /\ opening_counter' = Count(opening_counter, opening')
           /\ won_games' = IF Win(game) THEN Append(won_games, game.pgn)
                           ELSE won_games
           /\ lost_games' = IF ~Win(game) /\ Loss(game)
                            THEN Append(lost_games, game.pgn) ELSE lost_games
           /\ openings' = Append(openings, opening')
    /\ tallied' = tallied + 1
    /\ UNCHANGED <<pc, profile, raised>>
    /\ UNCHANGED notProfile

\* line 91 on an empty collection: ZeroDivisionError
StyleDividesByZero ==
    /\ pc = "profile"
    /\ tallied = Len(analyzed)
    /\ Len(analyzed) = 0
    /\ pc' = "profile_error"
    /\ raised' = "ZeroDivisionError"
    /\ UNCHANGED <<profile, ecoVars, profVars>>
    /\ UNCHANGED notProfile

\* line 99: fetch_stats raises RuntimeError
FetchStatsFails ==
    /\ pc = "profile"
    /\ tallied = Len(analyzed)
    /\ Len(analyzed) > 0
    /\ pc' = "profile_error"
    /\ raised' = "RuntimeError"
    /\ UNCHANGED <<profile, ecoVars, profVars>>
    /\ UNCHANGED notProfile

\* lines 91-107
WriteProfile ==
    /\ pc = "profile"
    /\ tallied = Len(analyzed)
    /\ Len(analyzed) > 0
    /\ profile' = File(ProfileOf(analyzed, opening_counter))
    /\ pc' = "done"
    /\ UNCHANGED <<raised, ecoVars, profVars>>
    /\ UNCHANGED notProfile

-----------------------------------------------------------------------------
(* select_representative_games on its own.                                 *)

\* k dips of one side, as the detector lists them
DipList(side, k) ==
    [n \in 1..k |-> [move_number |-> MoveNumberOf(side, n + 1),
                     score_before |-> PyInt(100), score_after |-> PyInt(300),
                     delta |-> PyInt(200)]]

\* An analysed game of the player whose own side has `own` dips and whose
\* opponent has `opp`.
SampleGame(result, names, own, opp) ==
    LET heroWhite == Lower(names[1]) = Lower(CHESSCOM_USERNAME)
        w == IF heroWhite THEN own ELSE opp
        b == IF heroWhite THEN opp ELSE own
        text == PgnText(FALSE, "white", Line(2 * Max(own, opp) + 2),
                        Headers(result, names[1], names[2], Header("1500")))
    IN  [pgn |-> text, result |-> result,
         time_control |-> <<"6", "0", "0">>,
         white |-> names[1], white_elo |-> 1500,
         black |-> names[2], black_elo |-> 1480, termination |-> "Normal",
         white_dips |-> DipList("white", w), black_dips |-> DipList("black", b)]

Results == {"1-0", "0-1", "1/2-1/2", "*"}

\* The archive holds only games the player is in (get_from_chesscom.py
\* lines 88-92), under any capitalisation of the name.
Names == { <<"HERO", "Villain">>, <<"Villain", "hero">> }

SampleGames ==
    { SampleGame(rn[1], rn[2], c[1], c[2]) :
        rn \in ({"1-0", "0-1"} \X Names)
                 \cup { <<"1/2-1/2", <<"HERO", "Villain">> >>,
                        <<"*", <<"Villain", "hero">> >> },
        c \in { <<5, 1>>, <<1, 3>>, <<3, 5>> } }

SampleInit ==
    /\ sample_games \in SeqsUpTo(SampleGames, MaxSampleGames)
    /\ max_per_category \in {2, 5}
    /\ result_sample = [win |-> << >>, loss |-> << >>, draw |-> << >>]
    /\ spc = "call"

SampleParked ==
    /\ sample_games = << >>
    /\ max_per_category = 5
    /\ result_sample = [win |-> << >>, loss |-> << >>, draw |-> << >>]
    /\ spc = "parked"

SelectRepresentativeGames ==
    /\ spc = "call"
    /\ result_sample' = select_representative_games(sample_games, max_per_category)
    /\ spc' = "done"
    /\ UNCHANGED <<sample_games, max_per_category>>
    /\ UNCHANGED notSamples

-----------------------------------------------------------------------------
(* analyze_style on its own.                                               *)

\* One side's dips, each given as <<k, delta>>: the dip at the side's k-th
\* EvalPoint, a centipawn change or the mate sentinel.
DipsAtPoints(side, points) ==
    [n \in 1..Len(points) |->
        IF points[n][2] = MATE_INVOLVED
        THEN [move_number |-> MoveNumberOf(side, points[n][1]),
              score_before |-> PyDict([type |-> "mate", value |-> 2]),
              score_after |-> PyDict([type |-> "cp", value |-> 100]),
              delta |-> MATE_INVOLVED]
        ELSE [move_number |-> MoveNumberOf(side, points[n][1]),
              score_before |-> PyInt(100),
              score_after |-> PyInt(100 + points[n][2].v),
              delta |-> points[n][2]]]

\* the shapes a side's dip list takes in the games below
DipShapes ==
    [none |-> << >>,
     early |-> << <<2, PyInt(200)>>, <<3, PyInt(-200)>>, <<5, PyInt(200)>> >>,
     quiet |-> << <<2, MATE_INVOLVED>>, <<3, MATE_INVOLVED>>, <<4, PyInt(150)>> >>,
     late |-> << <<30, PyInt(200)>>, <<31, PyInt(-200)>> >>,
     tenth |-> << <<5, PyInt(-300)>> >>,
     eleventh |-> << <<6, PyInt(-300)>> >>]

\* An analysed game of the player with the given time control and
\* termination, whose own side has the dips of shape `own` and whose
\* opponent has those of shape `opp`.
StyleGame(names, tc, termination, own, opp) ==
    LET heroWhite == Lower(names[1]) = Lower(CHESSCOM_USERNAME)
        w == IF heroWhite THEN own ELSE opp
        b == IF heroWhite THEN opp ELSE own
        text == PgnText(FALSE, "white", Line(2),
                        Headers("1-0", names[1], names[2], Header("1500")))
    IN  [pgn |-> text, result |-> "1-0", time_control |-> tc,
         white |-> names[1], white_elo |-> 1500,
         black |-> names[2], black_elo |-> 1480, termination |-> termination,
         white_dips |-> DipsAtPoints("white", DipShapes[w]),
         black_dips |-> DipsAtPoints("black", DipShapes[b])]

AsWhite == <<"HERO", "Villain">>

AsBlack == <<"Villain", "hero">>

StyleGames ==
    { StyleGame(AsWhite, <<"6", "0", "0">>, "Normal", "early", "none"),
      StyleGame(AsBlack, <<"6", "0", "0">>, "Timeout", "tenth", "early"),
      StyleGame(AsBlack, <<"1", "8", "0", "+", "2">>, "Normal", "late", "none"),
      StyleGame(AsWhite, <<"1", "8", "0", "+", "2">>, "Normal", "late", "late"),
      StyleGame(AsBlack, <<"9", "0", "0", "+", "1", "0">>, "Normal", "late", "quiet"),
      StyleGame(AsBlack, <<"1", "/", "2", "5", "9", "2", "0", "0">>, "Normal",
                "late", "none"),
      StyleGame(AsBlack, <<"8", "9", "9">>, "Normal", "quiet", "none"),
      StyleGame(AsWhite, << >>, "Normal", "eleventh", "early"),
      StyleGame(AsBlack, <<"1", "2", "0", "0">>, "Normal", "late", "late") }

NoStyle == [label \in StyleLabels |-> 0]

StyleInit ==
    /\ style_games \in SeqsUpTo(StyleGames, MaxStyleGames)
    /\ style_seen = 0
    /\ style_profile = NoStyle
    /\ stpc = "loop"

StyleParked ==
    /\ style_games = << >>
    /\ style_seen = 0
    /\ style_profile = NoStyle
    /\ stpc = "parked"

\* lines 149-181: one turn of the loop
StyleCountGame ==
    /\ stpc = "loop"
    /\ style_seen < Len(style_games)
    /\ LET hit == StyleOfGame(style_games[style_seen + 1])
       IN  style_profile' =
               [label \in StyleLabels |->
                   IF hit[label] THEN style_profile[label] + 1
                   ELSE style_profile[label]]
    /\ style_seen' = style_seen + 1
    /\ UNCHANGED <<style_games, stpc>>
    /\ UNCHANGED notStyle

\* lines 184-188
StyleNormalize ==
    /\ stpc = "loop"
    /\ style_seen = Len(style_games)
    /\ Len(style_games) > 0
    /\ style_profile' =
           [label \in StyleLabels |->
               Round2(style_profile[label], Len(style_games))]
    /\ stpc' = "done"
    /\ UNCHANGED <<style_games, style_seen>>
    /\ UNCHANGED notStyle

\* line 186 with total_games = 0
StyleNormalizeEmpty ==
    /\ stpc = "loop"
    /\ style_seen = Len(style_games)
    /\ Len(style_games) = 0
    /\ stpc' = "ZeroDivisionError"
    /\ UNCHANGED <<style_games, style_seen, style_profile>>
    /\ UNCHANGED notStyle

-----------------------------------------------------------------------------
(* build_player_profile on its own: any collection of analysed games, with *)
(* the partition files all readable or one of them missing.                *)

\* what the evaluator returns for a game of n half-moves that white starts,
\* the engine answering 100 and then 300 in turn
EvalsOf(n) ==
    LET point(k) == [move_number |-> k,
                     evaluation |-> [type |-> "cp",
                                     value |-> IF k % 4 = 1 THEN 100 ELSE 300]]
        whites == { k \in 1..n : k % 2 = 1 }
        blacks == { k \in 1..n : k % 2 = 0 }
    IN  [white |-> [r \in 1..Cardinality(whites) |-> point(2 * r - 1)],
         black |-> [r \in 1..Cardinality(blacks) |-> point(2 * r)]]

ProfileLines == { <<"e4", "e5", "Nf3">>, <<"e5">>, <<"d4">> }

ProfileGames ==
    { AnalyzedGame(PgnText(FALSE, "white", m,
                           Headers(r, n[1], n[2], Header("1500"))),
                   EvalsOf(Len(m))) :
        m \in ProfileLines, r \in Results, n \in Names }

ProfileInit ==
    /\ analyzed \in SeqsUpTo(ProfileGames, MaxProfileGames)
    /\ eco_files \in { EcoFiles(EcoPool, u) : u \in { {}, {1}, {3} } }
    /\ pc = "profile"
    /\ entry = "build_player_profile"
    /\ archive = << >>
    /\ cap = CapAll
    /\ pgns = << >>
    /\ i = 0
    /\ idx = 0
    /\ turn = "white"
    /\ evaluations = NoEvals
    /\ requests = << >>
    /\ errlog = << >>
    /\ outcome = << >>
    /\ dataset = NoFile
    /\ profile = NoFile
    /\ raised = "none"
    /\ runs = <<entry>>
    /\ last_output = NoFile
    /\ eco_db = EmptyDb
    /\ calls = 0
    /\ loads = 0
    /\ pgn_str = Unparseable
    /\ opening = None
    /\ caught = "none"

-----------------------------------------------------------------------------
(* Runs of the program one after the other.  Each is a new process: the    *)
(* files stay, everything in memory starts afresh.                         *)

NoTags ==
    [Result |-> NoHeader, White |-> NoHeader, Black |-> NoHeader,
     WhiteElo |-> NoHeader, BlackElo |-> NoHeader, TimeControl |-> NoHeader,
     Termination |-> NoHeader]

RunGames ==
    { RawGame("str", Unparseable),
      RawGame("str", PgnText(FALSE, "white", Line(1), NoTags)),
      RawGame("dict", PgnText(FALSE, "white", << >>,
                  Headers("1/2", "Hero", "Villain", Header("1500")))) }

RunCaps == {CapAll, CapBad}

RunsInit ==
    /\ archive \in SeqsUpTo(RunGames, MaxRunGames)
    /\ \/ entry = "analyse.main" /\ cap = CapInt(GAMES_ANALYSE_MAX)
       \/ entry = "build_profile" /\ cap \in RunCaps
    /\ pc = "start"
    /\ pgns = << >>
    /\ i = 0
    /\ idx = 0
    /\ turn = "white"
    /\ evaluations = NoEvals
    /\ requests = << >>
    /\ analyzed = << >>
    /\ errlog = << >>
    /\ outcome = << >>
    /\ dataset = NoFile
    /\ profile = NoFile
    /\ raised = "none"
    /\ runs = <<entry>>
    /\ last_output = NoFile

\* the process has ended, with or without an exception
Ended == pc \in {"done", "config_error", "profile_error"}

\* the run got to save_analysis (analyse.py line 161, build_profile.py
\* line 222)
Saved == pc \in {"done", "profile", "profile_error"}

NewRun ==
    /\ Ended
    /\ Len(runs) < MaxRuns
    /\ last_output' = IF Saved THEN File(analyzed) ELSE last_output
    /\ archive' \in SeqsUpTo(RunGames, MaxRunGames)
    /\ \/ entry' = "analyse.main" /\ cap' = CapInt(GAMES_ANALYSE_MAX)
       \/ entry' = "build_profile" /\ cap' \in RunCaps
    /\ runs' = Append(runs, entry')
    /\ pc' = "start"
    /\ pgns' = << >>
    /\ i' = 0
    /\ idx' = 0
    /\ turn' = "white"
    /\ evaluations' = NoEvals
    /\ requests' = << >>
    /\ analyzed' = << >>
    /\ errlog' = << >>
    /\ outcome' = << >>
    /\ raised' = "none"
    /\ eco_db' = EmptyDb
    /\ calls' = 0
    /\ loads' = 0
    /\ pgn_str' = Unparseable
    /\ opening' = None
    /\ caught' = "none"
    /\ tallied' = 0
    /\ opening_stats' = << >>
    /\ opening_counter' = << >>
    /\ won_games' = << >>
    /\ lost_games' = << >>
    /\ openings' = << >>
    /\ UNCHANGED <<dataset, profile, eco_files>>
    /\ UNCHANGED <<dipVars, sampleVars, styleVars>>

BatchNext ==
    \/ LoadArchive
    \/ GameBadFormat
    \/ GameParseFails
    \/ GameStart
    \/ EvalMove
    \/ EvalReturn
    \/ SaveAnalysis
    \/ TallyGame
    \/ StyleDividesByZero
    \/ FetchStatsFails
    \/ WriteProfile

Init ==
    BatchInit /\ DipParked /\ EcoParked /\ ProfInit /\ SampleParked /\ StyleParked

Spec == Init /\ [][BatchNext]_vars

InitDips ==
    DipInit /\ BatchParked /\ EcoParked /\ ProfInit /\ SampleParked /\ StyleParked

NextDips == FindSignificantDips

SpecDips == InitDips /\ [][NextDips]_vars

InitEco ==
    EcoInit /\ BatchParked /\ DipParked /\ ProfInit /\ SampleParked /\ StyleParked

NextEco == GetOpeningFromEco

SpecEco == InitEco /\ [][NextEco]_vars

InitSamples ==
    SampleInit /\ BatchParked /\ DipParked /\ EcoParked /\ ProfInit /\ StyleParked

NextSamples == SelectRepresentativeGames

SpecSamples == InitSamples /\ [][NextSamples]_vars

InitProfile ==
    ProfileInit /\ ProfInit /\ DipParked /\ SampleParked /\ StyleParked

NextProfile ==
    \/ TallyGame
    \/ StyleDividesByZero
    \/ FetchStatsFails
    \/ WriteProfile

SpecProfile == InitProfile /\ [][NextProfile]_vars

InitRuns ==
    RunsInit /\ DipParked /\ EcoParked /\ ProfInit /\ SampleParked /\ StyleParked

NextRuns ==
    \/ BatchNext
    \/ NewRun

SpecRuns == InitRuns /\ [][NextRuns]_vars

InitStyle ==
    StyleInit /\ BatchParked /\ DipParked /\ EcoParked /\ ProfInit /\ SampleParked

NextStyle ==
    \/ StyleCountGame
    \/ StyleNormalize
    \/ StyleNormalizeEmpty

SpecStyle == InitStyle /\ [][NextStyle]_vars

-----------------------------------------------------------------------------
(* Claims about the dip detector.                                          *)

DipsAt(mn) == { k \in 1..Len(dips) : dips[k].move_number = mn }

\* C2: an adjacent pair of centipawn evaluations yields a Dip iff
\* abs(curr - prev) >= threshold, and that Dip carries delta = curr - prev,
\* score_before = prev and score_after = curr; 100 then 300 at threshold 150
\* gives exactly one Dip of delta 200, 100 then 200 gives none.
C2_CpPairDipIffThreshold ==
    dpc = "done" =>
        /\ \A j \in 2..Len(evals) :
              LET prev == evals[j - 1].evaluation
                  curr == evals[j].evaluation
                  at == DipsAt(evals[j].move_number)
              IN  (prev.type = "cp" /\ curr.type = "cp") =>
                    /\ (at # {}) <=> (Abs(curr.value - prev.value) >= threshold)
                    /\ \A k \in at :
                          /\ dips[k].delta = PyInt(curr.value - prev.value)
                          /\ dips[k].score_before = PyInt(prev.value)
                          /\ dips[k].score_after = PyInt(curr.value)
        /\ ( /\ Len(evals) = 2
             /\ evals[1].evaluation = [type |-> "cp", value |-> 100]
             /\ evals[2].evaluation.type = "cp"
             /\ threshold = 150 ) =>
               /\ evals[2].evaluation.value = 300 =>
                    Len(dips) = 1 /\ dips[1].delta = PyInt(200)
               /\ evals[2].evaluation.value = 200 => dips = << >>

C2_Witness ==
    /\ dpc = "done"
    /\ Len(evals) = 2
    /\ evals[1].evaluation = [type |-> "cp", value |-> 100]
    /\ evals[2].evaluation = [type |-> "cp", value |-> 250]
    /\ threshold = 150
    /\ Len(dips) = 1
    /\ dips[1].delta = PyInt(150)

\* C3: an adjacent pair with at least one mate-typed evaluation yields exactly
\* one Dip, whose delta is the mate-involved sentinel and whose score_before
\* and score_after are the raw evaluations, whatever the threshold.
C3_MatePairAlwaysDips ==
    dpc = "done" =>
        \A j \in 2..Len(evals) :
            LET prev == evals[j - 1].evaluation
                curr == evals[j].evaluation
                at == DipsAt(evals[j].move_number)
            IN  (prev.type = "mate" \/ curr.type = "mate") =>
                  /\ Cardinality(at) = 1
                  /\ \A k \in at :
                        /\ dips[k].delta = MATE_INVOLVED
                        /\ dips[k].score_before = PyDict(prev)
                        /\ dips[k].score_after = PyDict(curr)

C3_Witness ==
    /\ dpc = "done"
    /\ Len(evals) = 3
    /\ evals[1].evaluation.type = "cp"
    /\ evals[2].evaluation.type = "mate"
    /\ evals[3].evaluation.type = "cp"
    /\ Abs(evals[3].evaluation.value - evals[1].evaluation.value) < threshold
    /\ Len(dips) = 2
    /\ dips[1].delta = MATE_INVOLVED
    /\ dips[2].delta = MATE_INVOLVED

-----------------------------------------------------------------------------
(* Claims about the batch runners and the evaluator.                       *)

\* the r-th smallest member of a set of numbers
Nth(S, r) == CHOOSE x \in S : Cardinality({y \in S : y < x}) = r - 1

PastLoop == pc \notin {"start", "config_error", "loop", "eval"}

RequestsOf(g) == { r \in 1..Len(requests) : requests[r].game = g }

\* what makes the analysis of game g fail, read off the game and the
\* engine's answers rather than off the handler
GameFails(g) ==
    \/ ~CanRead(pgns[g])
    \/ ~pgns[g].text.parses
    \/ \E r \in RequestsOf(g) : requests[r].answer = "none"
    \/ EloRaises(pgns[g].text.headers.WhiteElo)
    \/ EloRaises(pgns[g].text.headers.BlackElo)

Kept == { g \in 1..Len(outcome) : outcome[g] = "analyzed" }

Dropped == { g \in 1..Len(outcome) : outcome[g] # "analyzed" }

PlySide(first, k) == IF k % 2 = 1 THEN first ELSE Other(first)

MoveNumbers(es) == { es[k].move_number : k \in 1..Len(es) }

Increasing(es) ==
    \A k \in 1..(Len(es) - 1) : es[k].move_number < es[k + 1].move_number

C6_CapTakesFirstMin ==
    (entry = "build_profile" /\ pc \notin {"start", "config_error"}) =>
        /\ cap.kind = "int" =>
              pgns = SubSeq(archive, 1, Min(cap.n, Len(archive)))
        /\ cap.kind = "all" => pgns = archive
        /\ PastLoop => Len(outcome) = Len(pgns)

-----------------------------------------------------------------------------
(* Claims about the opening classifier.                                    *)

Hits(db, text) == { k \in 1..Len(text.moves) : Fen(text, k) \in DOMAIN db }

Deepest(S) == CHOOSE k \in S : \A m \in S : m <= k

\* C7: the classifier returns "<ECO> - <name>" of the entry at the deepest
\* position of the game whose fingerprint is in the table, and "Unknown"
\* when no position reached after a move is in it.
C7_DeepestMatchWins ==
    (calls > 0 /\ caught = "none") =>
        LET hits == Hits(eco_db, pgn_str)
        IN  IF hits = {} THEN opening = <<"Unknown">>
            ELSE LET rec == eco_db[Fen(pgn_str, Deepest(hits))]
                 IN  opening = <<rec.eco, " - ", rec.name>>

C7_Witness ==
    /\ calls > 0
    /\ caught = "none"
    /\ pgn_str.moves = <<"e4", "e5">>
    /\ Hits(eco_db, pgn_str) = {1, 2}
    /\ opening = <<"C20", " - ", "King's Pawn Game">>

\* C8: a failure to load the opening table is fatal to the run: no profile
\* is written from classifications made without the table.
C8_LoadFailureIsFatal ==
    (\E k \in 1..Len(openings) : openings[k] = <<"Error: ", "No such file">>)
        => (pc # "done" /\ profile = NoFile)

-----------------------------------------------------------------------------
(* Claims about the profile builder.                                       *)

SameName(a, b) == Lower(a) = Lower(b)

PlayerIsWhite(game) == SameName(game.white, CHESSCOM_USERNAME)

PlayerIsBlack(game) == SameName(game.black, CHESSCOM_USERNAME)

PlayerWon(game) ==
    \/ game.result = "1-0" /\ PlayerIsWhite(game)
    \/ game.result = "0-1" /\ PlayerIsBlack(game)

PlayerLost(game) ==
    \/ game.result = "0-1" /\ PlayerIsWhite(game)
    \/ game.result = "1-0" /\ PlayerIsBlack(game)

OwnDipCount(game) ==
    IF PlayerIsWhite(game) THEN Len(game.white_dips) ELSE Len(game.black_dips)

BucketOf(game) ==
    IF game.result = "1/2-1/2" THEN "draw"
    ELSE IF PlayerWon(game) THEN "win"
    ELSE IF game.result \in {"1-0", "0-1"} THEN "loss"
    ELSE "none"

Bucket(category) ==
    { k \in 1..Len(sample_games) : BucketOf(sample_games[k]) = category }

\* how many games of its bucket come before game k when the bucket is ranked
\* by own-side dips, earlier input first among equals
Rank(category, k) ==
    Cardinality({ m \in Bucket(category) :
        \/ OwnDipCount(sample_games[m]) < OwnDipCount(sample_games[k])
        \/ /\ OwnDipCount(sample_games[m]) = OwnDipCount(sample_games[k])
           /\ m < k })

TalliedAs(o) == { k \in 1..tallied : openings[k] = o }

RECURSIVE SumGames(_, _)
SumGames(stats, S) ==
    IF S = {} THEN 0
    ELSE LET o == CHOOSE x \in S : TRUE
         IN  stats[o].games + SumGames(stats, S \ {o})

-----------------------------------------------------------------------------
(* Claims about analyze_style.                                             *)

OwnDips(game) ==
    IF PlayerIsWhite(game) THEN game.white_dips ELSE game.black_dips

\* the player's own centipawn-typed dips of more than 150
BigOwnDips(game) ==
    LET own == OwnDips(game)
    IN  { k \in 1..Len(own) :
            own[k].delta.t = "int" /\ Abs(own[k].delta.v) > 150 }

Tactical(game) == Cardinality(BigOwnDips(game)) >= 3

Aggressive(game) ==
    \E k \in BigOwnDips(game) : OwnDips(game)[k].move_number <= 10

Positional(game) == Len(OwnDips(game)) <= 2

StyleCounts ==
    [tactical |-> Cardinality({ k \in 1..Len(style_games) : Tactical(style_games[k]) }),
     aggressive |-> Cardinality({ k \in 1..Len(style_games) : Aggressive(style_games[k]) }),
     positional |-> Cardinality({ k \in 1..Len(style_games) : Positional(style_games[k]) })]

\* h hundredths is count / n rounded to two decimal places
IsRounded(h, count, n) ==
    LET d == Abs(100 * count - h * n)
    IN  2 * d < n \/ (2 * d = n /\ h % 2 = 0)

\* C11, as stated: for n > 0 games each of style[tactical], style[aggressive]
\* and style[positional] is exactly its count of games over n.
C11_StyleIsCountOverN ==
    stpc = "done" =>
        \A label \in {"tactical", "aggressive", "positional"} :
            style_profile[label] * Len(style_games) = 100 * StyleCounts[label]

\* C11, amended: for n > 0 games each of style[tactical], style[aggressive]
\* and style[positional] is its count of games over n rounded to two decimal
\* places, the count lying between 0 and n; 4 games of which exactly 1 is
\* positional give 0.25.
C11_StyleIsRoundedCountOverN ==
    stpc = "done" =>
        /\ \A label \in {"tactical", "aggressive", "positional"} :
              /\ StyleCounts[label] \in 0..Len(style_games)
              /\ IsRounded(style_profile[label], StyleCounts[label],
                           Len(style_games))
        /\ (Len(style_games) = 4 /\ StyleCounts.positional = 1) =>
              style_profile.positional = 25

C11_Witness ==
    /\ stpc = "done"
    /\ Len(style_games) = 3
    /\ StyleCounts = [tactical |-> 1, aggressive |-> 2, positional |-> 1]
    /\ style_profile.tactical = 33
    /\ style_profile.aggressive = 67
    /\ style_profile.positional = 33
    /\ \E k \in 1..3 :
          /\ ~Positional(style_games[k])
          /\ ~Tactical(style_games[k])
          /\ \E d \in 1..Len(OwnDips(style_games[k])) :
                OwnDips(style_games[k])[d].delta = MATE_INVOLVED

\* the base seconds of the time controls of the model, as the claim reads
\* them: the integer before "+", the whole text without one, 600 otherwise
BaseSeconds(tc) ==
    CASE tc = <<"6", "0", "0">> -> 600
      [] tc = <<"1", "8", "0", "+", "2">> -> 180
      [] tc = <<"9", "0", "0", "+", "1", "0">> -> 900
      [] tc = <<"8", "9", "9">> -> 899
      [] tc = <<"1", "2", "0", "0">> -> 1200
      [] tc = <<"1", "/", "2", "5", "9", "2", "0", "0">> -> 600
      [] tc = << >> -> 600

TimeTroubleProne(game) ==
    /\ BaseSeconds(game.time_control) < 900
    /\ Cardinality({ k \in BigOwnDips(game) :
                        OwnDips(game)[k].move_number >= 60 }) >= 2

\* C12: a game is counted as time_trouble_prone iff its time control's base
\* is under 900 seconds and at least 2 of the player's own centipawn-typed
\* dips of more than 150 are at move 60 or later; a time control that is
\* neither "base+increment" nor a bare base counts as base 600.
C12_TimeTroubleIffShortBaseAndLateDips ==
    stpc = "loop" =>
        style_profile.time_trouble_prone =
            Cardinality({ k \in 1..style_seen :
                            TimeTroubleProne(style_games[k]) })

C12_Witness ==
    /\ stpc = "loop"
    /\ style_seen = 4
    /\ style_profile.time_trouble_prone = 2
    /\ style_games[1].time_control = <<"1", "8", "0", "+", "2">>
    /\ TimeTroubleProne(style_games[1])
    /\ style_games[2].time_control = <<"1", "8", "0", "+", "2">>
    /\ ~TimeTroubleProne(style_games[2])
    /\ style_games[3].time_control = <<"9", "0", "0", "+", "1", "0">>
    /\ style_games[4].time_control = <<"1", "/", "2", "5", "9", "2", "0", "0">>
    /\ TimeTroubleProne(style_games[4])

-----------------------------------------------------------------------------
(* Claims about build_player_profile on an empty collection.               *)

\* C13: building a profile over an empty collection of analysed games fails
\* with EmptyDatasetError, without a division by a zero number of games, and
\* leaves the profile artifact as it was.
C13_EmptyDatasetFailsCleanly ==
    (Len(analyzed) = 0 /\ pc \in {"profile_error", "done"}) =>
        /\ pc = "profile_error"
        /\ raised = "EmptyDatasetError"
        /\ profile = NoFile

-----------------------------------------------------------------------------
(* Claims about the records analyze_pgn makes.                             *)

\* the tags of the text the r-th record of the output was made from
TagsOf(r) == pgns[Nth(Kept, r)].text.headers

\* C14: whatever the headers of the input, every AnalyzedGame has a result
\* among "1-0", "0-1", "1/2-1/2" and "*", an Elo of 0 where the Elo header is
\* missing and an empty text where a textual header is missing.
C14_ResultClosedAndDefaults ==
    \A r \in 1..Len(analyzed) :
        /\ analyzed[r].result \in {"1-0", "0-1", "1/2-1/2", "*"}
        /\ ~TagsOf(r).WhiteElo.has => analyzed[r].white_elo = 0
        /\ ~TagsOf(r).BlackElo.has => analyzed[r].black_elo = 0
        /\ ~TagsOf(r).White.has => analyzed[r].white = ""
        /\ ~TagsOf(r).Black.has => analyzed[r].black = ""
        /\ ~TagsOf(r).Termination.has => analyzed[r].termination = ""
        /\ ~TagsOf(r).TimeControl.has => analyzed[r].time_control = << >>

-----------------------------------------------------------------------------
(* Claims about the shape of the detector's output.                        *)

\* C15: every Dip carries the move_number of an EvalPoint of the sequence
\* other than the first, the Dips are strictly increasing in move_number,
\* no adjacent pair yields more than one, and a sequence of length 0 or 1
\* yields none.
C15_DipsFollowTheSequence ==
    dpc = "done" =>
        /\ \A k \in 1..Len(dips) :
              \E j \in 2..Len(evals) :
                  dips[k].move_number = evals[j].move_number
        /\ \A k \in 1..(Len(dips) - 1) :
              dips[k].move_number < dips[k + 1].move_number
        /\ \A j \in 2..Len(evals) :
              Cardinality(DipsAt(evals[j].move_number)) <= 1
        /\ Len(evals) <= 1 => dips = << >>

C15_Witness ==
    /\ dpc = "done"
    /\ Len(evals) = 3
    /\ Len(dips) = 2
    /\ dips[1].move_number = evals[2].move_number
    /\ dips[2].move_number = evals[3].move_number
    /\ dips[1].delta # MATE_INVOLVED
    /\ dips[2].delta = MATE_INVOLVED

-----------------------------------------------------------------------------
(* Claims about the table's life in one process.                           *)

RECURSIVE MergedUpTo(_, _)
MergedUpTo(files, f) ==
    IF f = 0 THEN << >>
    ELSE LET before == MergedUpTo(files, f - 1)
         IN  [k \in (DOMAIN before) \cup (DOMAIN files[f].entries) |->
                 IF k \in DOMAIN files[f].entries THEN files[f].entries[k]
                 ELSE before[k]]

\* the entries of all the partition files, merged
FullTable == MergedUpTo(eco_files, Len(eco_files))

\* C16: over any calls of the classifier in one process the table is loaded
\* at most once, and every lookup is made against the table merged from all
\* the partition files, never against an empty or partly loaded one, also
\* after a load that failed part-way.
C16_LookupsSeeTheFullTable ==
    /\ loads <= 1
    /\ (calls > 0 /\ caught = "none") => eco_db = FullTable

-----------------------------------------------------------------------------
(* Claims about the artifacts over several runs.                           *)

\* C17: the dataset is the output collection of the latest run that got to
\* save_analysis, whole and alone: this run's once it has saved, emptied
\* when every game failed, and until then the one of the latest earlier run
\* that saved.
C17_DatasetIsLatestOutput ==
    IF Saved THEN dataset = File(analyzed) ELSE dataset = last_output

C17_Witness ==
    /\ Len(runs) = 2
    /\ Saved
    /\ analyzed = << >>
    /\ Len(pgns) > 0
    /\ last_output.exists
    /\ Len(last_output.data) = 2
    /\ dataset = File(<< >>)

\* C18: after every run of build_player_profile_from_file, however it ended,
\* a profile and a dataset that both exist are of the same run: the
\* profile's total_games is the number of records in the dataset.
C18_ProfileMatchesDataset ==
    ( /\ Ended
      /\ \A r \in 1..Len(runs) : runs[r] = "build_profile"
      /\ dataset.exists
      /\ profile.exists ) =>
        profile.data.total_games = Len(dataset.data)

====
